---- MODULE Spec2Model ----
(***************************************************************************)
(* Batched tensor contraction over a forest of binary contraction trees.   *)
(*                                                                         *)
(* Two schedulers are modelled:                                            *)
(*   impl = "contract" : src/batch_contract.py, batch_contract             *)
(*                       (schedules and executes in one loop)              *)
(*   impl = "plan"     : src/batch_tn/batch.py, get_batched_contractions   *)
(*                       (plans on shapes), then batch_contract replays    *)
(*                       the plan with _batched_einsum                     *)
(*                                                                         *)
(* Tensors are concrete integer arrays: a record [shape, data] where data  *)
(* maps every index tuple of the shape to an integer.  Equations are       *)
(* sequences of one-character strings, so that split('->'), split(',')     *)
(* and the construction of the batched equation work on characters.        *)
(* Python dicts are association lists <<key, value>> in insertion order.   *)
(***************************************************************************)
EXTENDS Integers, Sequences, FiniteSets, TLC

(***************************************************************************)
(* Bounds of the model                                                     *)
(***************************************************************************)
\* largest number of trees in a call on a forest of arbitrary trees
MaxTrees == 2

\* largest number of trees in a call on copies of one tree
MaxCopies == 3

\* the longest term of the equations handed to get_batched_einsum_equation
\* on its own
MaxTermLen == 2

(***************************************************************************)
(* Python dict (insertion ordered) as a sequence of <<key, value>>         *)
(***************************************************************************)
DictHas(d, k) == \E i \in 1..Len(d) : d[i][1] = k

DictGet(d, k) == d[CHOOSE i \in 1..Len(d) : d[i][1] = k][2]

\* d[k] = v : an existing key keeps its position, a new key goes last
DictSet(d, k, v) ==
    IF DictHas(d, k)
    THEN [i \in 1..Len(d) |-> IF d[i][1] = k THEN <<k, v>> ELSE d[i]]
    ELSE Append(d, <<k, v>>)

\* a pop that leaves the key in the dict
DictPop_keep(d, k) == d

\* a pop that removes the newest entry, whatever its key
DictPop_last(d, k) == SubSeq(d, 1, Len(d) - 1)

\* d.pop(k) for a key that is present
DictPop(d, k) == SelectSeq(d, LAMBDA e : e[1] # k)

(***************************************************************************)
(* Small sequence helpers                                                  *)
(***************************************************************************)
RECURSIVE SumSeq(_)
SumSeq(s) == IF s = <<>> THEN 0 ELSE Head(s) + SumSeq(Tail(s))

SeqRange(s) == {s[i] : i \in 1..Len(s)}

(***************************************************************************)
(* Characters and equation strings                                         *)
(***************************************************************************)
\* the characters used, in code point order; "?" follows ">" and "{" follows "z"
Alphabet == << ",", "-", ".", ">", "?",
               "a", "b", "c", "d", "e", "f", "g", "h", "i", "j", "k", "l", "m",
               "n", "o", "p", "q", "r", "s", "t", "u", "v", "w", "x", "y", "z",
               "{" >>

ord(c) == CHOOSE i \in 1..Len(Alphabet) : Alphabet[i] = c

chr(n) == Alphabet[n]

\* position of the first "->" in s, 0 when there is none
ArrowPos(s) ==
    IF \E i \in 1..(Len(s) - 1) : s[i] = "-" /\ s[i + 1] = ">"
    THEN CHOOSE i \in 1..(Len(s) - 1) :
            /\ s[i] = "-" /\ s[i + 1] = ">"
            /\ \A j \in 1..(i - 1) : ~(s[j] = "-" /\ s[j + 1] = ">")
    ELSE 0

\* s.split(',')
RECURSIVE SplitComma(_)
SplitComma(s) ==
    IF \E i \in 1..Len(s) : s[i] = ","
    THEN LET i == CHOOSE i \in 1..Len(s) :
                     s[i] = "," /\ \A j \in 1..(i - 1) : s[j] # ","
         IN  <<SubSeq(s, 1, i - 1)>> \o SplitComma(SubSeq(s, i + 1, Len(s)))
    ELSE <<s>>

\* ','.join(terms)
RECURSIVE JoinComma(_)
JoinComma(terms) ==
    IF Len(terms) = 1 THEN terms[1]
    ELSE terms[1] \o <<",">> \o JoinComma(Tail(terms))

\* left_side, right_side = eq.split('->')
LeftSide(eq) == SubSeq(eq, 1, ArrowPos(eq) - 1)
RightSide(eq) == SubSeq(eq, ArrowPos(eq) + 2, Len(eq))

(***************************************************************************)
(* Tensors                                                                 *)
(***************************************************************************)
RECURSIVE IdxTuples(_)
IdxTuples(shape) ==
    IF shape = <<>> THEN {<<>>}
    ELSE {<<i>> \o t : i \in 1..Head(shape), t \in IdxTuples(Tail(shape))}

\* np.stack(arrays, axis=0) for arrays of one shape
Stack(arrays) ==
    LET sh == <<Len(arrays)>> \o arrays[1].shape
    IN  [shape |-> sh,
         data  |-> [ix \in IdxTuples(sh) |-> arrays[ix[1]].data[Tail(ix)]]]

\* np.stack raises ValueError for no arrays or arrays of different shapes
StackFails(arrays) ==
    \/ arrays = <<>>
    \/ \E i \in 1..Len(arrays) : arrays[i].shape # arrays[1].shape

\* a scatter that hands the first slice to every instance
Slice_first(stack, j) ==
    LET sh == Tail(stack.shape)
    IN  [shape |-> sh,
         data  |-> [ix \in IdxTuples(sh) |-> stack.data[<<1>> \o ix]]]

\* result_stack[j] : the j-th slice along the leading axis
Slice(stack, j) ==
    LET sh == Tail(stack.shape)
    IN  [shape |-> sh,
         data  |-> [ix \in IdxTuples(sh) |-> stack.data[<<j>> \o ix]]]

(***************************************************************************)
(* Einstein summation, as numpy.einsum / cotengra.einsum compute it        *)
(***************************************************************************)
Letters(term) == SelectSeq(term, LAMBDA c : c # ".")

\* the symbols an ellipsis stands for, right aligned
EllipsisSyms == << "#3", "#2", "#1" >>

EllipsisOf(n) == SubSeq(EllipsisSyms, Len(EllipsisSyms) - n + 1, Len(EllipsisSyms))

\* a term with its "..." replaced by n ellipsis symbols
ExpandTerm(term, n) ==
    LET first == IF \E i \in 1..Len(term) : term[i] = "."
                 THEN CHOOSE i \in 1..Len(term) :
                          term[i] = "." /\ \A j \in 1..(i - 1) : term[j] # "."
                 ELSE 0
    IN  IF first = 0 THEN term
        ELSE SubSeq(term, 1, first - 1) \o EllipsisOf(n)
               \o Letters(SubSeq(term, first, Len(term)))

HasEllipsis(term) == \E i \in 1..Len(term) : term[i] = "."

\* the parsed equation for operands of ranks ra and rb
EinsumTerms(eq, ra, rb) ==
    LET \* the number of axes the ellipsis of a term stands for
        dots(term, rank) ==
            IF HasEllipsis(term) THEN rank - Len(Letters(term)) ELSE 0
        expand(l, r, na, nb) ==
            [l   |-> ExpandTerm(l, na),
             r   |-> ExpandTerm(r, nb),
             out |-> ExpandTerm(RightSide(eq), IF na > nb THEN na ELSE nb)]
        parse(ins) == expand(ins[1], ins[2], dots(ins[1], ra), dots(ins[2], rb))
    IN  parse(SplitComma(LeftSide(eq)))

\* the size of symbol c, read off the operand shapes
SymSize(t, sa, sb, c) ==
    IF \E i \in 1..Len(t.l) : t.l[i] = c
    THEN sa[CHOOSE i \in 1..Len(t.l) : t.l[i] = c]
    ELSE sb[CHOOSE i \in 1..Len(t.r) : t.r[i] = c]

\* einsum raises ValueError when the operands do not fit the equation
EinsumFails(eq, a, b) ==
    \/ ArrowPos(eq) = 0
    \/ Len(SplitComma(LeftSide(eq))) # 2
    \/ LET misfit(t) ==
               \/ Len(t.l) # Len(a.shape)
               \/ Len(t.r) # Len(b.shape)
               \/ \E i, j \in 1..Len(t.l) :
                      t.l[i] = t.l[j] /\ a.shape[i] # a.shape[j]
               \/ \E i, j \in 1..Len(t.r) :
                      t.r[i] = t.r[j] /\ b.shape[i] # b.shape[j]
               \/ \E i \in 1..Len(t.l), j \in 1..Len(t.r) :
                      t.l[i] = t.r[j] /\ a.shape[i] # b.shape[j]
               \/ \E i \in 1..Len(t.out) :
                      t.out[i] \notin (SeqRange(t.l) \cup SeqRange(t.r))
               \/ \E i, j \in 1..Len(t.out) : i # j /\ t.out[i] = t.out[j]
       IN  misfit(EinsumTerms(eq, Len(a.shape), Len(b.shape)))

\* the sum, over all values of the symbols in todo, of the product of the
\* two operand entries selected by env
RECURSIVE SumProducts(_, _, _, _, _, _)
RECURSIVE SumRange(_, _, _, _, _, _, _)
SumProducts(t, a, b, sizes, todo, env) ==
    IF todo = <<>>
    THEN a.data[[i \in 1..Len(t.l) |-> env[t.l[i]]]]
           * b.data[[i \in 1..Len(t.r) |-> env[t.r[i]]]]
    ELSE SumRange(t, a, b, sizes, todo, env, sizes[Head(todo)])

SumRange(t, a, b, sizes, todo, env, v) ==
    IF v = 0 THEN 0
    ELSE SumProducts(t, a, b, sizes, Tail(todo), (Head(todo) :> v) @@ env)
           + SumRange(t, a, b, sizes, todo, env, v - 1)

\* the distinct symbols of s, in order of first appearance
RECURSIVE Unique(_)
Unique(s) ==
    IF s = <<>> THEN <<>>
    ELSE LET u == Unique(SubSeq(s, 1, Len(s) - 1))
         IN  IF s[Len(s)] \in SeqRange(u) THEN u ELSE Append(u, s[Len(s)])

Einsum(eq, a, b) ==
    LET \* the output of shape osh, the symbols in summed summed over
        output(t, sizes, summed, osh) ==
            [shape |-> osh,
             data  |-> [ix \in IdxTuples(osh) |->
                           SumProducts(t, a, b, sizes, summed,
                               [c \in SeqRange(t.out) |->
                                   ix[CHOOSE i \in 1..Len(t.out) : t.out[i] = c]])]]
        sized(t, sizes) ==
            output(t, sizes,
                   SelectSeq(Unique(t.l \o t.r), LAMBDA c : c \notin SeqRange(t.out)),
                   [i \in 1..Len(t.out) |-> sizes[t.out[i]]])
        parsed(t) ==
            sized(t, [c \in SeqRange(t.l) \cup SeqRange(t.r) |->
                         SymSize(t, a.shape, b.shape, c)])
    IN  parsed(EinsumTerms(eq, Len(a.shape), Len(b.shape)))

(***************************************************************************)
(* Contraction trees: the read-only view the schedulers consume            *)
(*   N            number of leaves; leaf k is the node {k}, k in 0..N-1    *)
(*   contractions the pairwise steps <<parent, left, right, eq>> in the    *)
(*                order the tree lists them                                *)
(*   inds         the index symbols of every node                          *)
(*   size_dict    the size of every index symbol                           *)
(***************************************************************************)
Leaves(tree) == {{n} : n \in 0..(tree.N - 1)}

Root(tree) == 0..(tree.N - 1)

\* tree.children : {parent: (left, right)}
children(tree) ==
    LET RECURSIVE build(_)
        build(n) == IF n = 0 THEN <<>>
                    ELSE LET c == tree.contractions[n]
                         IN  DictSet(build(n - 1), c[1], <<c[2], c[3]>>)
    IN  build(Len(tree.contractions))

\* tree.get_einsum_eq(parent)
get_einsum_eq(tree, parent) ==
    LET n == CHOOSE n \in 1..Len(tree.contractions) :
                 /\ tree.contractions[n][1] = parent
                 /\ \A m \in (n + 1)..Len(tree.contractions) :
                        tree.contractions[m][1] # parent
    IN  tree.contractions[n][4]

get_node_shape(tree, node) ==
    [i \in 1..Len(tree.inds[node]) |-> tree.size_dict[tree.inds[node][i]]]

extract_signature(tree, parent) ==
    LET eq == get_einsum_eq(tree, parent)
        lr == DictGet(children(tree), parent)
        left_shape  == get_node_shape(tree, lr[1])
        right_shape == get_node_shape(tree, lr[2])
    IN  <<eq, left_shape, right_shape>>

\* a parent map that records the left operands only
tree_parent_of_left(tree) ==
    LET ch == children(tree)
        RECURSIVE build(_)
        build(n) == IF n = 0 THEN <<>>
                    ELSE DictSet(build(n - 1), ch[n][2][1], ch[n][1])
    IN  build(Len(ch))

\* {node: parent for parent, (left, right) in tree.children.items()
\*               for node in (left, right)}
tree_parent_of(tree) ==
    LET ch == children(tree)
        RECURSIVE build(_)
        build(n) == IF n = 0 THEN <<>>
                    ELSE DictSet(DictSet(build(n - 1), ch[n][2][1], ch[n][1]),
                                 ch[n][2][2], ch[n][1])
    IN  build(Len(ch))

(***************************************************************************)
(* The equations and trees of the model                                    *)
(***************************************************************************)
EqMM   == << "a", "b", ",", "b", "c", "-", ">", "a", "c" >>   \* "ab,bc->ac"
EqIJK  == << "i", "j", ",", "j", "k", "-", ">", "i", "k" >>   \* "ij,jk->ik"
EqKeep == << "a", "b", ",", "b", "c", "-", ">", "a", "b", "c" >>  \* "ab,bc->abc"
EqDot  == << "a", "b", "c", ",", "a", "b", "c", "-", ">" >>   \* "abc,abc->"

Syms == {"a", "b", "c", "d", "i", "j", "k"}

AllTwo == [c \in Syms |-> 2]

\* one leaf, nothing to contract
Leaf1 ==
    [N |-> 1, contractions |-> <<>>,
     inds |-> ({0} :> <<"a", "b">>),
     size_dict |-> AllTwo]

\* one matrix product
MM ==
    [N |-> 2, contractions |-> << <<{0, 1}, {0}, {1}, EqMM>> >>,
     inds |-> ({0} :> <<"a", "b">>) @@ ({1} :> <<"b", "c">>)
                @@ ({0, 1} :> <<"a", "c">>),
     size_dict |-> AllTwo]

\* the same product with renamed indices: same shapes, another equation string
MMren ==
    [N |-> 2, contractions |-> << <<{0, 1}, {0}, {1}, EqIJK>> >>,
     inds |-> ({0} :> <<"i", "j">>) @@ ({1} :> <<"j", "k">>)
                @@ ({0, 1} :> <<"i", "k">>),
     size_dict |-> AllTwo]

\* the same equation string on other shapes
MMbig ==
    [N |-> 2, contractions |-> << <<{0, 1}, {0}, {1}, EqMM>> >>,
     inds |-> ({0} :> <<"a", "b">>) @@ ({1} :> <<"b", "c">>)
                @@ ({0, 1} :> <<"a", "c">>),
     size_dict |-> [c \in Syms |-> IF c = "b" THEN 3 ELSE 2]]

\* ((0 1) 2), both steps with the canonical equation "ab,bc->ac"
Chain3 ==
    [N |-> 3,
     contractions |-> << <<{0, 1}, {0}, {1}, EqMM>>,
                         <<{0, 1, 2}, {0, 1}, {2}, EqMM>> >>,
     inds |-> ({0} :> <<"a", "b">>) @@ ({1} :> <<"b", "c">>)
                @@ ({2} :> <<"c", "d">>) @@ ({0, 1} :> <<"a", "c">>)
                @@ ({0, 1, 2} :> <<"a", "d">>),
     size_dict |-> AllTwo]

\* ((1 2) 0), the root listed first and its left operand the inner node; the
\* root has the signature of MM, the inner step another equation string
Chain3R ==
    [N |-> 3,
     contractions |-> << <<{0, 1, 2}, {1, 2}, {0}, EqMM>>,
                         <<{1, 2}, {1}, {2}, EqIJK>> >>,
     inds |-> ({0} :> <<"b", "c">>) @@ ({1} :> <<"a", "i">>)
                @@ ({2} :> <<"i", "b">>) @@ ({1, 2} :> <<"a", "b">>)
                @@ ({0, 1, 2} :> <<"a", "c">>),
     size_dict |-> AllTwo]

\* ((0 1) (2 3)), the two inner steps with one signature, a scalar at the root
Bal4 ==
    [N |-> 4,
     contractions |-> << <<{0, 1}, {0}, {1}, EqKeep>>,
                         <<{2, 3}, {2}, {3}, EqKeep>>,
                         <<{0, 1, 2, 3}, {0, 1}, {2, 3}, EqDot>> >>,
     inds |-> ({0} :> <<"a", "b">>) @@ ({1} :> <<"b", "c">>)
                @@ ({2} :> <<"a", "b">>) @@ ({3} :> <<"b", "c">>)
                @@ ({0, 1} :> <<"a", "b", "c">>) @@ ({2, 3} :> <<"a", "b", "c">>)
                @@ ({0, 1, 2, 3} :> <<>>),
     size_dict |-> AllTwo]

\* ((0 1) (2 3)) of matrices: the inner steps share the signature of MMren, the
\* root has the signature of MM
Bal4M ==
    [N |-> 4,
     contractions |-> << <<{0, 1}, {0}, {1}, EqIJK>>,
                         <<{2, 3}, {2}, {3}, EqIJK>>,
                         <<{0, 1, 2, 3}, {0, 1}, {2, 3}, EqMM>> >>,
     inds |-> ({0} :> <<"a", "i">>) @@ ({1} :> <<"i", "b">>)
                @@ ({2} :> <<"b", "j">>) @@ ({3} :> <<"j", "c">>)
                @@ ({0, 1} :> <<"a", "b">>) @@ ({2, 3} :> <<"b", "c">>)
                @@ ({0, 1, 2, 3} :> <<"a", "c">>),
     size_dict |-> AllTwo]

WellFormedTrees == {Leaf1, MM, MMren, MMbig, Chain3, Chain3R, Bal4, Bal4M}

\* two leaves that no step combines
Loose2 ==
    [N |-> 2, contractions |-> <<>>,
     inds |-> ({0} :> <<"a", "b">>) @@ ({1} :> <<"b", "c">>),
     size_dict |-> AllTwo]

\* three leaves, the step that consumes leaf 2 is missing
Loose3 ==
    [N |-> 3, contractions |-> << <<{0, 1}, {0}, {1}, EqMM>> >>,
     inds |-> ({0} :> <<"a", "b">>) @@ ({1} :> <<"b", "c">>)
                @@ ({2} :> <<"c", "d">>) @@ ({0, 1} :> <<"a", "c">>),
     size_dict |-> AllTwo]

MalformedTrees == {Loose2, Loose3}

\* a binary tree over the leaves 0..N-1: every internal node is contracted by
\* exactly one step from two disjoint nodes, every node but the root is the
\* operand of exactly one step, and the equations fit the declared shapes
IsBinaryTree(tree) ==
    LET cs == tree.contractions
        nodes == Leaves(tree) \cup {cs[n][1] : n \in 1..Len(cs)}
    IN  /\ tree.N >= 1
        /\ Len(cs) = tree.N - 1
        /\ \A n, m \in 1..Len(cs) : cs[n][1] = cs[m][1] => n = m
        /\ \A n \in 1..Len(cs) :
              /\ cs[n][2] \in nodes /\ cs[n][3] \in nodes
              /\ cs[n][2] \cap cs[n][3] = {}
              /\ cs[n][1] = cs[n][2] \cup cs[n][3]
              /\ cs[n][1] \notin Leaves(tree)
        /\ \A x \in nodes \ {Root(tree)} :
              Cardinality({n \in 1..Len(cs) : x \in {cs[n][2], cs[n][3]}}) = 1
        /\ Root(tree) \in nodes

(***************************************************************************)
(* Leaf tensors                                                            *)
(***************************************************************************)
\* a tensor of the given shape whose entries depend on seed, leaf and position
Fill(shape, seed, leaf) ==
    [shape |-> shape,
     data  |-> [ix \in IdxTuples(shape) |->
                   (seed * seed + 3 * leaf
                      + SumSeq([i \in 1..Len(ix) |-> (i + seed) * ix[i] * ix[1]])) % 5]]

\* arrays for one tree, leaf k with the shape the tree declares for it
LeafArrays(tree, seed) ==
    [n \in 1..tree.N |-> Fill(get_node_shape(tree, {n - 1}), seed, n - 1)]

(***************************************************************************)
(* The batched equation                                                    *)
(***************************************************************************)
\* the batch symbol put in front of the input terms and not of the output
with_batch_symbol_inputs(eq, batch_symbol) ==
    LET terms == SplitComma(LeftSide(eq))
    IN  JoinComma([n \in 1..Len(terms) |-> batch_symbol \o terms[n]])
            \o <<"-", ">">> \o RightSide(eq)

\* the equation with batch_symbol in front of every input term and of the
\* output term
with_batch_symbol(original_eq, batch_symbol) ==
    LET left_side  == LeftSide(original_eq)
        right_side == RightSide(original_eq)
        terms      == SplitComma(left_side)
        batched_terms  == [n \in 1..Len(terms) |-> batch_symbol \o terms[n]]
        batched_output == batch_symbol \o right_side
    IN  JoinComma(batched_terms) \o <<"-", ">">> \o batched_output

\* src/batch_contract.py: the batch symbol is the ellipsis
get_batched_einsum_equation(original_eq) ==
    with_batch_symbol(original_eq, <<".", ".", ".">>)

\* src/batch_tn/batch.py: the batch symbol is the character after the
\* highest character of the equation
MaxOrd(s) == CHOOSE m \in {ord(s[i]) : i \in 1..Len(s)} :
                 \A i \in 1..Len(s) : ord(s[i]) <= m

\* a batch symbol that is the highest character itself, not the one after it
tn_get_batched_einsum_equation_same(original_eq) ==
    with_batch_symbol(original_eq, <<chr(MaxOrd(original_eq))>>)

tn_get_batched_einsum_equation(original_eq) ==
    with_batch_symbol(original_eq, <<chr(MaxOrd(original_eq) + 1)>>)

(***************************************************************************)
(* The ready table: {signature: [instance, ...]} in insertion order, an    *)
(* instance being <<tree_idx, parent, left, right>>                        *)
(***************************************************************************)
\* a table keyed by the operand shapes only, the equation ignored
ReadyAppend_shapes(ready, signature, instance) ==
    IF \E j \in 1..Len(ready) :
           ready[j][1][2] = signature[2] /\ ready[j][1][3] = signature[3]
    THEN LET j == CHOOSE j \in 1..Len(ready) :
                      ready[j][1][2] = signature[2] /\ ready[j][1][3] = signature[3]
         IN  [ready EXCEPT ![j] = <<ready[j][1], Append(ready[j][2], instance)>>]
    ELSE Append(ready, <<signature, <<instance>>>>)

\* a table that opens a new group for every instance
ReadyAppend_nomerge(ready, signature, instance) ==
    Append(ready, <<signature, <<instance>>>>)

\* a table that puts a new signature in front
ReadyAppend_front(ready, signature, instance) ==
    IF DictHas(ready, signature)
    THEN DictSet(ready, signature, Append(DictGet(ready, signature), instance))
    ELSE << <<signature, <<instance>>>> >> \o ready

\* ready[signature].append(instance)
ReadyAppend(ready, signature, instance) ==
    IF DictHas(ready, signature)
    THEN DictSet(ready, signature, Append(DictGet(ready, signature), instance))
    ELSE Append(ready, <<signature, <<instance>>>>)

\* any(ready.values()) / bool(contractible)
AnyReady(ready) == \E j \in 1..Len(ready) : ready[j][2] # <<>>

\* a selection that takes the newest group whatever its size
Largest_last(ready) == Len(ready)

\* max(ready, key=lambda s: len(ready[s])) : the first group of maximal size
Largest(ready) ==
    CHOOSE j \in 1..Len(ready) :
        /\ \A m \in 1..Len(ready) : Len(ready[m][2]) <= Len(ready[j][2])
        /\ \A m \in 1..(j - 1) : Len(ready[m][2]) < Len(ready[j][2])

\* a selection that does not remove the group from the table
RemoveAt_keep(ready, j) == ready

\* the table without its j-th entry
RemoveAt(ready, j) == SubSeq(ready, 1, j - 1) \o SubSeq(ready, j + 1, Len(ready))

(***************************************************************************)
(* src/batch_contract.py, batch_contract                                   *)
(***************************************************************************)
\* lines 108-117 for one tree: seed the leaves, register the steps whose two
\* operands are leaves
contract_init_tree(ready, tree_idx, tree, array) ==
    LET m == IF Len(array) < tree.N THEN Len(array) ELSE tree.N
        active == [n \in 1..m |-> <<{n - 1}, array[n]>>]
        ch == children(tree)
        RECURSIVE scan(_)
        scan(n) ==
            IF n = 0 THEN ready
            ELSE LET parent == ch[n][1]
                     left   == ch[n][2][1]
                     right  == ch[n][2][2]
                 IN  IF DictHas(active, left) /\ DictHas(active, right)
                     THEN ReadyAppend(scan(n - 1), extract_signature(tree, parent),
                                      <<tree_idx, parent, left, right>>)
                     ELSE scan(n - 1)
    IN  [ready |-> scan(Len(ch)), active |-> active]

\* lines 100-117
contract_init(ts, arrs) ==
    LET RECURSIVE loop(_)
        loop(i) ==
            IF i = 0 THEN [ready |-> <<>>, tree_active_nodes |-> <<>>]
            ELSE LET prev == loop(i - 1)
                     one  == contract_init_tree(prev.ready, i, ts[i], arrs[i])
                 IN  [ready |-> one.ready,
                      tree_active_nodes |-> Append(prev.tree_active_nodes, one.active)]
    IN  loop(Len(ts))

\* lines 121-137: take the group at position j out of the table, stack its
\* operands and contract the stacks
contract_execute(ready, active, j) ==
    LET signature   == ready[j][1]
        to_contract == ready[j][2]
        batched_eq  == get_batched_einsum_equation(signature[1])
        present == \A n \in 1..Len(to_contract) :
                       /\ DictHas(active[to_contract[n][1]], to_contract[n][3])
                       /\ DictHas(active[to_contract[n][1]], to_contract[n][4])
        left_arrays  == [n \in 1..Len(to_contract) |->
                            DictGet(active[to_contract[n][1]], to_contract[n][3])]
        right_arrays == [n \in 1..Len(to_contract) |->
                            DictGet(active[to_contract[n][1]], to_contract[n][4])]
        err == IF ~present THEN "KeyError"
               ELSE IF StackFails(left_arrays) \/ StackFails(right_arrays)
                         \/ EinsumFails(batched_eq, Stack(left_arrays),
                                        Stack(right_arrays))
                    THEN "ValueError"
                    ELSE ""
    IN  [ready |-> RemoveAt(ready, j),
         signature |-> signature,
         to_contract |-> to_contract,
         error |-> err,
         result_stack |-> IF err = "" THEN Einsum(batched_eq, Stack(left_arrays),
                                                  Stack(right_arrays))
                          ELSE [shape |-> <<0>>, data |-> <<>>]]

\* a promotion that registers the grandparent without looking at its children
contract_promote_eager(ts, ready, active, instance, result) ==
    LET tree_idx == instance[1]
        parent   == instance[2]
        nodes2   == DictSet(DictPop(DictPop(active[tree_idx], instance[3]),
                                    instance[4]), parent, result)
        tp       == tree_parent_of(ts[tree_idx])
        grandparent == DictGet(tp, parent)
        lr       == DictGet(children(ts[tree_idx]), grandparent)
    IN  [tree_active_nodes |-> [active EXCEPT ![tree_idx] = nodes2],
         error |-> "",
         ready |-> IF ~DictHas(tp, parent) THEN ready
                   ELSE ReadyAppend(ready,
                            extract_signature(ts[tree_idx], grandparent),
                            <<tree_idx, grandparent, lr[1], lr[2]>>)]

\* lines 141-151 for one instance and its result
contract_promote(ts, ready, active, instance, result) ==
    LET tree_idx == instance[1]
        parent   == instance[2]
        left     == instance[3]
        right    == instance[4]
        nodes    == active[tree_idx]
        missing  == \/ ~DictHas(nodes, left)
                    \/ ~DictHas(DictPop(nodes, left), right)
        nodes2   == DictSet(DictPop(DictPop(nodes, left), right), parent, result)
        tp       == tree_parent_of(ts[tree_idx])
    IN  IF missing
        THEN [ready |-> ready, tree_active_nodes |-> active, error |-> "KeyError"]
        ELSE [tree_active_nodes |-> [active EXCEPT ![tree_idx] = nodes2],
              error |-> "",
              ready |->
                  IF ~DictHas(tp, parent) THEN ready
                  ELSE LET grandparent == DictGet(tp, parent)
                           lr == DictGet(children(ts[tree_idx]), grandparent)
                       IN  IF DictHas(nodes2, lr[1]) /\ DictHas(nodes2, lr[2])
                           THEN ReadyAppend(ready,
                                    extract_signature(ts[tree_idx], grandparent),
                                    <<tree_idx, grandparent, lr[1], lr[2]>>)
                           ELSE ready]

(***************************************************************************)
(* src/batch_tn/batch.py                                                   *)
(***************************************************************************)
\* a result shape that is the shape of the left operand
get_result_shape_left(eq, shapes) == [error |-> "", shape |-> shapes[1]]

\* get_result_shape(eq, shapes): the sizes of the output symbols, or the
\* exception the function raises
get_result_shape(eq, shapes) ==
    LET terms  == SplitComma(LeftSide(eq))
        output == RightSide(eq)
        \* the first size registered for symbol c
        firstSize(c) ==
            LET tn == CHOOSE tn \in 1..Len(terms) :
                          /\ c \in SeqRange(terms[tn])
                          /\ \A um \in 1..(tn - 1) : c \notin SeqRange(terms[um])
                p  == CHOOSE p \in 1..Len(terms[tn]) :
                          /\ terms[tn][p] = c
                          /\ \A q \in 1..(p - 1) : terms[tn][q] # c
            IN  shapes[tn][p]
    IN  IF Len(terms) # Len(shapes) THEN [error |-> "ValueError", shape |-> <<>>]
        ELSE IF \E tn \in 1..Len(terms) : Len(shapes[tn]) # Len(terms[tn])
        THEN [error |-> "ValueError", shape |-> <<>>]
        ELSE IF \E tn \in 1..Len(terms) : \E p \in 1..Len(terms[tn]) :
                    shapes[tn][p] # firstSize(terms[tn][p])
        THEN [error |-> "ValueError", shape |-> <<>>]
        ELSE IF \E p \in 1..Len(output) :
                    \A tn \in 1..Len(terms) : output[p] \notin SeqRange(terms[tn])
        THEN [error |-> "KeyError", shape |-> <<>>]
        ELSE [error |-> "",
              shape |-> [p \in 1..Len(output) |-> firstSize(output[p])]]

\* lines 78-83: parent_map[left] = parent; parent_map[right] = parent
node2parent(contractions) ==
    LET RECURSIVE build(_)
        build(n) == IF n = 0 THEN <<>>
                    ELSE LET c == contractions[n]
                         IN  DictSet(DictSet(build(n - 1), c[2], c[1]), c[3], c[1])
    IN  build(Len(contractions))

\* lines 78-80: children_map[parent] = (left, right)
node2children(contractions) ==
    LET RECURSIVE build(_)
        build(n) == IF n = 0 THEN <<>>
                    ELSE LET c == contractions[n]
                         IN  DictSet(build(n - 1), c[1], <<c[2], c[3]>>)
    IN  build(Len(contractions))

\* lines 78-83: eq_map[parent] = eq
node2eq(contractions) ==
    LET RECURSIVE build(_)
        build(n) == IF n = 0 THEN <<>>
                    ELSE LET c == contractions[n]
                         IN  DictSet(build(n - 1), c[1], c[4])
    IN  build(Len(contractions))

\* leaves numbered from 1
LeafDict_from1(xs) == [n \in 1..Len(xs) |-> <<{n}, xs[n]>>]

\* {frozenset([n]): x for n, x in enumerate(xs)}
LeafDict(xs) == [n \in 1..Len(xs) |-> <<{n - 1}, xs[n]>>]

\* lines 90-97 for one tree
plan_init_tree(contractible, i, contractions, node2shape) ==
    LET RECURSIVE scan(_)
        scan(n) ==
            IF n = 0 THEN contractible
            ELSE LET c == contractions[n]
                 IN  IF DictHas(node2shape, c[2]) /\ DictHas(node2shape, c[3])
                     THEN ReadyAppend(scan(n - 1),
                              <<c[4], DictGet(node2shape, c[2]),
                                DictGet(node2shape, c[3])>>,
                              <<i, c[1], c[2], c[3]>>)
                     ELSE scan(n - 1)
    IN  scan(Len(contractions))

\* lines 67-97
plan_init(contractions_batch, shapes_batch) ==
    LET m == IF Len(contractions_batch) < Len(shapes_batch)
             THEN Len(contractions_batch) ELSE Len(shapes_batch)
        n2s == [i \in 1..Len(shapes_batch) |-> LeafDict(shapes_batch[i])]
        RECURSIVE loop(_)
        loop(i) == IF i = 0 THEN <<>>
                   ELSE plan_init_tree(loop(i - 1), i, contractions_batch[i], n2s[i])
    IN  [contractible |-> loop(m), node2shape_batch |-> n2s]

\* lines 101-106: pop the group at position j and compute the result shape
plan_pop(contractible, j) ==
    LET key     == contractible[j][1]
        targets == contractible[j][2]
        rs      == get_result_shape(key[1], <<key[2], key[3]>>)
    IN  [contractible |-> RemoveAt(contractible, j),
         key |-> key, targets |-> targets,
         error |-> rs.error, result_shape |-> rs.shape]

\* lines 108-124 for one target
plan_promote(contractions_batch, contractible, node2shape_batch, target, result_shape) ==
    LET i      == target[1]
        parent == target[2]
        left   == target[3]
        right  == target[4]
        shapes == node2shape_batch[i]
        missing == \/ ~DictHas(shapes, left)
                   \/ ~DictHas(DictPop(shapes, left), right)
        shapes2 == DictSet(DictPop(DictPop(shapes, left), right), parent,
                           result_shape)
        pm == node2parent(contractions_batch[i])
    IN  IF missing
        THEN [contractible |-> contractible,
              node2shape_batch |-> node2shape_batch, error |-> "KeyError"]
        ELSE [node2shape_batch |-> [node2shape_batch EXCEPT ![i] = shapes2],
              error |-> "",
              contractible |->
                  IF ~DictHas(pm, parent) THEN contractible
                  ELSE LET grandparent == DictGet(pm, parent)
                           g == DictGet(node2children(contractions_batch[i]),
                                        grandparent)
                       IN  IF DictHas(shapes2, g[1]) /\ DictHas(shapes2, g[2])
                           THEN ReadyAppend(contractible,
                                    <<DictGet(node2eq(contractions_batch[i]),
                                              grandparent),
                                      DictGet(shapes2, g[1]),
                                      DictGet(shapes2, g[2])>>,
                                    <<i, grandparent, g[1], g[2]>>)
                           ELSE contractible]

\* a replay step that leaves the maps as they are
batched_einsum_noop(eq, targets, node2array_batch) ==
    [node2array_batch |-> node2array_batch, error |-> ""]

\* _batched_einsum(eq, targets, node2array_batch): pop every operand, stack,
\* contract once, store result[i] under the parent of target i
batched_einsum(eq, targets, node2array_batch) ==
    LET batched_eq == tn_get_batched_einsum_equation(eq)
        \* lines 135-137, target by target
        RECURSIVE gather(_)
        gather(n) ==
            IF n = 0
            THEN [maps |-> node2array_batch, left |-> <<>>, right |-> <<>>,
                  error |-> ""]
            ELSE LET g  == gather(n - 1)
                     t  == targets[n]
                     m1 == g.maps[t[1]]
                     m2 == DictPop(m1, t[3])
                 IN  IF g.error # "" THEN g
                     ELSE IF ~DictHas(m1, t[3]) \/ ~DictHas(m2, t[4])
                     THEN [g EXCEPT !.error = "KeyError"]
                     ELSE [maps  |-> [g.maps EXCEPT ![t[1]] = DictPop(m2, t[4])],
                           left  |-> Append(g.left, DictGet(m1, t[3])),
                           right |-> Append(g.right, DictGet(m2, t[4])),
                           error |-> ""]
        g == gather(Len(targets))
        bad == \/ StackFails(g.left) \/ StackFails(g.right)
               \/ EinsumFails(batched_eq, Stack(g.left), Stack(g.right))
        result == Einsum(batched_eq, Stack(g.left), Stack(g.right))
        \* lines 143-144
        RECURSIVE scatter(_)
        scatter(n) ==
            IF n = 0 THEN g.maps
            ELSE LET prev == scatter(n - 1)
                     t == targets[n]
                 IN  [prev EXCEPT ![t[1]] = DictSet(prev[t[1]], t[2], Slice(result, n))]
    IN  IF g.error # "" THEN [node2array_batch |-> g.maps, error |-> g.error]
        ELSE IF bad THEN [node2array_batch |-> g.maps, error |-> "ValueError"]
        ELSE [node2array_batch |-> scatter(Len(targets)), error |-> ""]

(***************************************************************************)
(* The two entry points as functions of their arguments                    *)
(***************************************************************************)
\* src/batch_contract.py lines 140-151: the for loop over one group
contract_promote_all(ts, ready, active, group, stack) ==
    LET RECURSIVE loop(_)
        loop(n) ==
            IF n = 0
            THEN [ready |-> ready, tree_active_nodes |-> active, error |-> ""]
            ELSE LET prev == loop(n - 1)
                 IN  IF prev.error # "" THEN prev
                     ELSE contract_promote(ts, prev.ready, prev.tree_active_nodes,
                                           group[n], Slice(stack, n))
    IN  loop(Len(group))

\* src/batch_contract.py lines 120-151: the while loop
RECURSIVE contract_loop(_, _, _, _)
contract_loop(ts, ready, active, steps) ==
    IF ~AnyReady(ready)
    THEN [tree_active_nodes |-> active, steps |-> steps, error |-> ""]
    ELSE LET e == contract_execute(ready, active, Largest(ready))
             p == contract_promote_all(ts, e.ready, active, e.to_contract,
                                       e.result_stack)
         IN  IF e.error # ""
             THEN [tree_active_nodes |-> active, steps |-> steps, error |-> e.error]
             ELSE IF p.error # ""
             THEN [tree_active_nodes |-> p.tree_active_nodes, steps |-> steps,
                   error |-> p.error]
             ELSE contract_loop(ts, p.ready, p.tree_active_nodes, steps + 1)

\* src/batch_contract.py, batch_contract(trees, arrays)
batch_contract(ts, arrs) ==
    LET s == contract_init(ts, arrs)
        f == contract_loop(ts, s.ready, s.tree_active_nodes, 0)
        nodes == f.tree_active_nodes
    IN  IF f.error # "" THEN [results |-> <<>>, steps |-> f.steps, error |-> f.error]
        ELSE IF \E i \in 1..Len(nodes) : Len(nodes[i]) # 1
        THEN [results |-> <<>>, steps |-> f.steps, error |-> "AssertionError"]
        ELSE [results |-> [i \in 1..Len(nodes) |-> nodes[i][1][2]],
              steps |-> f.steps, error |-> ""]

\* src/batch_tn/batch.py lines 108-124: the for loop over one group
plan_promote_all(contractions_batch, table, shapes, group, shape) ==
    LET RECURSIVE loop(_)
        loop(n) ==
            IF n = 0
            THEN [contractible |-> table, node2shape_batch |-> shapes,
                  error |-> ""]
            ELSE LET prev == loop(n - 1)
                 IN  IF prev.error # "" THEN prev
                     ELSE plan_promote(contractions_batch, prev.contractible,
                                       prev.node2shape_batch, group[n], shape)
    IN  loop(Len(group))

\* src/batch_tn/batch.py lines 99-126: the while loop
RECURSIVE plan_loop(_, _, _, _)
plan_loop(contractions_batch, table, shapes, plan) ==
    IF table = <<>>
    THEN [batched_contractions |-> plan, error |-> ""]
    ELSE LET e == plan_pop(table, Largest(table))
             p == plan_promote_all(contractions_batch, e.contractible, shapes,
                                   e.targets, e.result_shape)
             plan2 == Append(plan, <<e.key[1], e.targets>>)
         IN  IF e.error # ""
             THEN [batched_contractions |-> plan2, error |-> e.error]
             ELSE IF p.error # ""
             THEN [batched_contractions |-> plan2, error |-> p.error]
             ELSE plan_loop(contractions_batch, p.contractible,
                            p.node2shape_batch, plan2)

\* src/batch_tn/batch.py, get_batched_contractions
get_batched_contractions(contractions_batch, shapes_batch) ==
    LET s == plan_init(contractions_batch, shapes_batch)
    IN  plan_loop(contractions_batch, s.contractible, s.node2shape_batch, <<>>)

\* src/batch_tn/batch.py, batch_contract(contractions_batch, arrays_batch)
tn_batch_contract(contractions_batch, arrays_batch) ==
    LET shapes_batch == [i \in 1..Len(arrays_batch) |->
                            [n \in 1..Len(arrays_batch[i]) |->
                                arrays_batch[i][n].shape]]
        plan == get_batched_contractions(contractions_batch, shapes_batch)
        bc   == plan.batched_contractions
        RECURSIVE replay(_)
        replay(n) ==
            IF n = 0
            THEN [node2array_batch |->
                      [i \in 1..Len(arrays_batch) |-> LeafDict(arrays_batch[i])],
                  error |-> ""]
            ELSE LET prev == replay(n - 1)
                 IN  IF prev.error # "" THEN prev
                     ELSE batched_einsum(bc[n][1], bc[n][2], prev.node2array_batch)
        f == replay(Len(bc))
        maps == f.node2array_batch
    IN  IF plan.error # ""
        THEN [results |-> <<>>, steps |-> Len(bc), error |-> plan.error]
        ELSE IF f.error # ""
        THEN [results |-> <<>>, steps |-> Len(bc), error |-> f.error]
        ELSE IF \E i \in 1..Len(maps) : maps[i] = <<>>
        THEN [results |-> <<>>, steps |-> Len(bc), error |-> "StopIteration"]
        ELSE [results |-> [i \in 1..Len(maps) |-> maps[i][1][2]],
              steps |-> Len(bc), error |-> ""]

\* the call of the implementation im on a forest
Call(im, ts, arrs) ==
    IF im = "contract" THEN batch_contract(ts, arrs)
    ELSE tn_batch_contract([i \in 1..Len(ts) |-> ts[i].contractions], arrs)

\* contracting one tree alone, node by node, without batching: a leaf holds
\* its array, an internal node the contraction of its left and right operand
RECURSIVE Direct(_, _, _)
Direct(tree, array, node) ==
    IF node \in Leaves(tree)
    THEN array[(CHOOSE n \in 0..(tree.N - 1) : node = {n}) + 1]
    ELSE LET lr == DictGet(children(tree), node)
         IN  Einsum(get_einsum_eq(tree, node),
                    Direct(tree, array, lr[1]),
                    Direct(tree, array, lr[2]))

(***************************************************************************)
(* State                                                                   *)
(***************************************************************************)
VARIABLES
    trees,                \* the input forest
    arrays,               \* arrays[i][n] : the tensor of leaf n-1 of tree i
    impl,                 \* "contract" or "plan"
    arg_eq,               \* the argument of get_batched_einsum_equation
    ret_eq,               \* the equation it returned
    pc,                   \* position of the call
    error,                \* the exception that ended the call, "" if none
    results,              \* the returned list
    k,                    \* position in the current for loop (1-based)
    \* src/batch_contract.py
    ready,
    tree_active_nodes,
    to_contract,
    result_stack,
    \* src/batch_tn/batch.py
    contractible,
    node2shape_batch,
    targets,
    result_shape,
    batched_contractions,
    node2array_batch,
    \* history, not program state
    history,              \* the groups executed or planned so far
    promoted              \* the instances <<tree_idx, parent>> promoted so far

vars == << trees, arrays, impl, arg_eq, ret_eq, pc, error, results, k,
           ready, tree_active_nodes, to_contract, result_stack,
           contractible, node2shape_batch, targets, result_shape,
           batched_contractions, node2array_batch, history, promoted >>

\* what no step of a call on a forest writes
inputVars   == << trees, arrays, impl, arg_eq, ret_eq >>
contractVars == << ready, tree_active_nodes, to_contract, result_stack >>
planVars    == << contractible, node2shape_batch, targets, result_shape,
                  batched_contractions >>

NoTensor == [shape |-> <<0>>, data |-> <<>>]

\* the size of the largest pending group
LargestSize(table) ==
    IF table = <<>> THEN 0 ELSE Len(table[Largest(table)][2])

\* the forests of the model: any trees of TreeSet, up to MaxTrees of them, or
\* one tree of TreeSet up to MaxCopies times
Forests(TreeSet) ==
    UNION {[1..n -> TreeSet] : n \in 0..MaxTrees}
      \cup {[i \in 1..n |-> t] : t \in TreeSet, n \in 1..MaxCopies}

InitWith(TreeSet) ==
    /\ impl \in {"contract", "plan"}
    /\ trees \in Forests(TreeSet)
    \* copies of one tree come with equal or with different leaf tensors,
    \* different trees with different ones
    /\ \E same \in BOOLEAN :
          /\ same => \A i \in 1..Len(trees) : trees[i] = trees[1]
          /\ arrays = [i \in 1..Len(trees) |->
                          LeafArrays(trees[i], IF same THEN 1 ELSE i)]
    /\ arg_eq = <<>>
    /\ ret_eq = <<>>
    /\ pc = "start"
    /\ error = ""
    /\ results = <<>>
    /\ k = 0
    /\ ready = <<>>
    /\ tree_active_nodes = <<>>
    /\ to_contract = <<>>
    /\ result_stack = NoTensor
    /\ contractible = <<>>
    /\ node2shape_batch = <<>>
    /\ targets = <<>>
    /\ result_shape = <<>>
    /\ batched_contractions = <<>>
    /\ node2array_batch = <<>>
    /\ history = <<>>
    /\ promoted = <<>>

Init == InitWith(WellFormedTrees)

InitMalformed == InitWith(WellFormedTrees \cup MalformedTrees)

\* the call raises
Raise(e) ==
    /\ pc' = "failed"
    /\ error' = e

(***************************************************************************)
(* src/batch_contract.py                                                   *)
(***************************************************************************)
\* lines 100-117
Initialize ==
    /\ pc = "start" /\ impl = "contract"
    /\ LET s == contract_init(trees, arrays)
       IN  /\ ready' = s.ready
           /\ tree_active_nodes' = s.tree_active_nodes
    /\ pc' = "loop"
    /\ UNCHANGED << inputVars, error, results, k, to_contract, result_stack,
                    planVars, node2array_batch, history, promoted >>

\* lines 120-137 with the group at position j selected
PopAt(j) ==
    /\ pc = "loop" /\ AnyReady(ready)
    /\ LET e == contract_execute(ready, tree_active_nodes, j)
       IN  /\ ready' = e.ready
           /\ to_contract' = e.to_contract
           /\ result_stack' = e.result_stack
           /\ history' = Append(history, [key |-> e.signature,
                                          insts |-> e.to_contract,
                                          largest |-> LargestSize(ready),
                                          table |-> ready,
                                          maps |-> tree_active_nodes])
           /\ IF e.error # "" THEN Raise(e.error) /\ k' = k
              ELSE IF e.to_contract = <<>>
                   THEN pc' = "loop" /\ k' = 0 /\ error' = error
                   ELSE pc' = "promote" /\ k' = 1 /\ error' = error
    /\ UNCHANGED << inputVars, results, tree_active_nodes, planVars,
                    node2array_batch, promoted >>

\* line 121: the largest group is selected
Pop == PopAt(Largest(ready))

\* lines 140-151, one iteration of the for loop
Promote ==
    /\ pc = "promote"
    /\ LET s == contract_promote(trees, ready, tree_active_nodes,
                                 to_contract[k], Slice(result_stack, k))
       IN  /\ ready' = s.ready
           /\ tree_active_nodes' = s.tree_active_nodes
           /\ IF s.error # "" THEN Raise(s.error) /\ UNCHANGED << k, promoted >>
              ELSE /\ promoted' = Append(promoted, <<to_contract[k][1],
                                                   to_contract[k][2]>>)
                   /\ error' = error
                   /\ IF k < Len(to_contract)
                      THEN pc' = "promote" /\ k' = k + 1
                      ELSE pc' = "loop" /\ k' = 0
    /\ UNCHANGED << inputVars, results, to_contract, result_stack, planVars,
                    node2array_batch, history >>

\* lines 153-155
Finish ==
    /\ pc = "loop" /\ ~AnyReady(ready)
    /\ IF \A i \in 1..Len(tree_active_nodes) : Len(tree_active_nodes[i]) = 1
       THEN /\ results' = [i \in 1..Len(tree_active_nodes) |->
                              tree_active_nodes[i][1][2]]
            /\ pc' = "done"
            /\ error' = error
       ELSE /\ Raise("AssertionError")
            /\ results' = results
    /\ UNCHANGED << inputVars, k, contractVars, planVars, node2array_batch,
                    history, promoted >>

(***************************************************************************)
(* src/batch_tn/batch.py                                                   *)
(***************************************************************************)
\* batch_contract line 162 and get_batched_contractions lines 67-97
PlanInitialize ==
    /\ pc = "start" /\ impl = "plan"
    /\ LET shapes_batch == [i \in 1..Len(arrays) |->
                               [n \in 1..Len(arrays[i]) |-> arrays[i][n].shape]]
           contractions_batch == [i \in 1..Len(trees) |-> trees[i].contractions]
           s == plan_init(contractions_batch, shapes_batch)
       IN  /\ contractible' = s.contractible
           /\ node2shape_batch' = s.node2shape_batch
    /\ pc' = "plan"
    /\ UNCHANGED << inputVars, error, results, k, contractVars, targets,
                    result_shape, batched_contractions, node2array_batch,
                    history, promoted >>

\* get_batched_contractions lines 100-106 with the group at position j selected
PlanPopAt(j) ==
    /\ pc = "plan" /\ contractible # <<>>
    /\ LET e == plan_pop(contractible, j)
       IN  /\ contractible' = e.contractible
           /\ targets' = e.targets
           /\ result_shape' = e.result_shape
           /\ batched_contractions' =
                  Append(batched_contractions, <<e.key[1], e.targets>>)
           /\ history' = Append(history, [key |-> e.key, insts |-> e.targets,
                                          largest |-> LargestSize(contractible),
                                          table |-> contractible,
                                          maps |-> node2shape_batch])
           /\ IF e.error # "" THEN Raise(e.error) /\ k' = k
              ELSE IF e.targets = <<>>
                   THEN pc' = "plan" /\ k' = 0 /\ error' = error
                   ELSE pc' = "plan_promote" /\ k' = 1 /\ error' = error
    /\ UNCHANGED << inputVars, results, contractVars, node2shape_batch,
                    node2array_batch, promoted >>

\* line 101: the largest group is selected
PlanPop == PlanPopAt(Largest(contractible))

\* get_batched_contractions lines 108-124, one iteration of the for loop
PlanPromote ==
    /\ pc = "plan_promote"
    /\ LET s == plan_promote([i \in 1..Len(trees) |-> trees[i].contractions],
                             contractible, node2shape_batch, targets[k],
                             result_shape)
       IN  /\ contractible' = s.contractible
           /\ node2shape_batch' = s.node2shape_batch
           /\ IF s.error # "" THEN Raise(s.error) /\ UNCHANGED << k, promoted >>
              ELSE /\ promoted' = Append(promoted, <<targets[k][1], targets[k][2]>>)
                   /\ error' = error
                   /\ IF k < Len(targets)
                      THEN pc' = "plan_promote" /\ k' = k + 1
                      ELSE pc' = "plan" /\ k' = 0
    /\ UNCHANGED << inputVars, results, contractVars, targets, result_shape,
                    batched_contractions, node2array_batch, history >>

\* get_batched_contractions line 126 and batch_contract line 165
PlanReturn ==
    /\ pc = "plan" /\ contractible = <<>>
    /\ node2array_batch' = [i \in 1..Len(arrays) |-> LeafDict(arrays[i])]
    /\ pc' = "replay"
    /\ k' = 1
    /\ UNCHANGED << inputVars, error, results, contractVars, planVars,
                    history, promoted >>

\* batch_contract lines 167-168, one planned group
Replay ==
    /\ pc = "replay" /\ k <= Len(batched_contractions)
    /\ LET s == batched_einsum(batched_contractions[k][1],
                               batched_contractions[k][2], node2array_batch)
       IN  /\ node2array_batch' = s.node2array_batch
           /\ IF s.error # "" THEN Raise(s.error) /\ k' = k
              ELSE pc' = "replay" /\ k' = k + 1 /\ error' = error
    /\ UNCHANGED << inputVars, results, contractVars, planVars, history,
                    promoted >>

\* batch_contract line 170
Return ==
    /\ pc = "replay" /\ k > Len(batched_contractions)
    /\ IF \E i \in 1..Len(node2array_batch) : node2array_batch[i] = <<>>
       THEN /\ Raise("StopIteration")
            /\ results' = results
       ELSE /\ results' = [i \in 1..Len(node2array_batch) |->
                              node2array_batch[i][1][2]]
            /\ pc' = "done"
            /\ error' = error
    /\ UNCHANGED << inputVars, k, contractVars, planVars, node2array_batch,
                    history, promoted >>

Next ==
    \/ Initialize
    \/ Pop
    \/ Promote
    \/ Finish
    \/ PlanInitialize
    \/ PlanPop
    \/ PlanPromote
    \/ PlanReturn
    \/ Replay
    \/ Return

Spec == Init /\ [][Next]_vars

\* the call has returned or raised
Ended == pc \in {"done", "failed"}

\* the statements of one call run to completion: weak fairness of Next, with
\* the enabling condition of <<Next>>_vars written out (a call that has not
\* ended always has a next statement, a call that has ended has none)
FairSpec == Spec /\ ((<>[]Ended) \/ ([]<><<Next>>_vars))

\* the selection at lines 121 / 101 replaced by any pending group
PopAny == \E j \in 1..Len(ready) : PopAt(j)

PlanPopAny == \E j \in 1..Len(contractible) : PlanPopAt(j)

NextAny ==
    \/ Initialize
    \/ PopAny
    \/ Promote
    \/ Finish
    \/ PlanInitialize
    \/ PlanPopAny
    \/ PlanPromote
    \/ PlanReturn
    \/ Replay
    \/ Return

SpecAnyOrder == Init /\ [][NextAny]_vars

\* the same calls on forests that may be malformed
SpecMalformed == InitMalformed /\ [][Next]_vars

(***************************************************************************)
(* get_batched_einsum_equation called on its own                           *)
(***************************************************************************)
\* the index symbols of the equations tried: the lowest and the highest letter
EqSymbols == {"a", "z"}

\* the terms of up to MaxTermLen index symbols
Terms == UNION {[1..m -> EqSymbols] : m \in 0..MaxTermLen}

\* 'term,term->out'
Equation(t1, t2, out) == t1 \o <<",">> \o t2 \o <<"-", ">">> \o out

InitEq ==
    /\ impl \in {"contract", "plan"}
    /\ arg_eq \in {Equation(t1, t2, out) : t1 \in Terms, t2 \in Terms, out \in Terms}
    /\ ret_eq = <<>>
    /\ pc = "eq"
    /\ trees = <<>>
    /\ arrays = <<>>
    /\ error = ""
    /\ results = <<>>
    /\ k = 0
    /\ ready = <<>>
    /\ tree_active_nodes = <<>>
    /\ to_contract = <<>>
    /\ result_stack = NoTensor
    /\ contractible = <<>>
    /\ node2shape_batch = <<>>
    /\ targets = <<>>
    /\ result_shape = <<>>
    /\ batched_contractions = <<>>
    /\ node2array_batch = <<>>
    /\ history = <<>>
    /\ promoted = <<>>

\* src/batch_contract.py lines 59-82, src/batch_tn/batch.py lines 26-56
BatchEquation ==
    /\ pc = "eq"
    /\ ret_eq' = IF impl = "contract"
                 THEN get_batched_einsum_equation(arg_eq)
                 ELSE tn_get_batched_einsum_equation(arg_eq)
    /\ pc' = "eq_done"
    /\ UNCHANGED << trees, arrays, impl, arg_eq, error, results, k,
                    contractVars, planVars, node2array_batch, history,
                    promoted >>

SpecEq == InitEq /\ [][BatchEquation]_vars

(***************************************************************************)
(* Properties                                                              *)
(***************************************************************************)
\* the ready table of the running implementation
Pending == IF impl = "contract" THEN ready ELSE contractible

\* the scheduler loop has exited: the ready table was found empty
SchedulerDone ==
    \/ pc = "loop" /\ ~AnyReady(ready)
    \/ pc = "plan" /\ contractible = <<>>
    \/ pc \in {"replay", "done"}

\* the active-node maps once every planned or selected group has been executed
FinalMaps == IF impl = "contract" THEN tree_active_nodes ELSE node2array_batch

\* the forest is one tree submitted several times
Copies == Len(trees) >= 1 /\ \A i \in 1..Len(trees) : trees[i] = trees[1]

SameArrays == \A i \in 1..Len(arrays) : arrays[i] = arrays[1]

\* the trees with an instance in group number n of the history
TreesOf(n) == {history[n].insts[m][1] : m \in 1..Len(history[n].insts)}

\* C1: a call on a well-formed forest does not fail and returns one result per
\* tree, in input order; result i is the contraction of tree i alone on
\* arrays[i], node by node with left and right operand in that order, whatever
\* the other trees of the forest are
C1_ResultsAreDirect ==
    /\ pc # "failed"
    /\ pc = "done" =>
          /\ Len(results) = Len(trees)
          /\ \A i \in 1..Len(trees) :
                 results[i] = Direct(trees[i], arrays[i], Root(trees[i]))

\* a finished call on trees of different shape and different results, where
\* one batched step held instances of two trees
C1_Witness ==
    /\ pc = "done"
    /\ \E i, j \in 1..Len(trees) :
           trees[i].N # trees[j].N /\ results[i] # results[j]
    /\ \E n \in 1..Len(history) : Cardinality(TreesOf(n)) >= 2

\* C2: on a well-formed forest the scheduler loop always reaches Done, and no
\* group it pops is empty
C2_ReachesDone ==
    /\ <>(pc = "done")
    /\ [](\A n \in 1..Len(history) : history[n].insts # <<>>)

\* a call that went around the loop several times and is Done
C2_Witness == pc = "done" /\ Len(history) >= 3

\* C3: no instance is promoted twice, and when the loop is Done every internal
\* node of every tree has been promoted, sum(leafCount - 1) promotions in all,
\* in at most that many batched steps
C3_PromotedOnce ==
    /\ pc # "failed"
    /\ \A a, b \in 1..Len(promoted) : promoted[a] = promoted[b] => a = b
    /\ SchedulerDone =>
          /\ Len(promoted) = SumSeq([i \in 1..Len(trees) |-> trees[i].N - 1])
          /\ \A i \in 1..Len(trees) : \A n \in 1..Len(trees[i].contractions) :
                 <<i, trees[i].contractions[n][1]>> \in SeqRange(promoted)
          /\ Len(history) <= Len(promoted)

\* the loop is Done after fewer batched steps than promotions
C3_Witness ==
    /\ SchedulerDone
    /\ Len(trees) >= 2
    /\ Len(history) >= 2
    /\ Len(history) < Len(promoted)

\* C4: when the ready table is found empty every tree's active-node map has
\* exactly one entry, the root of the tree (the only leaf of a one-leaf tree)
C4_OnlyRootRemains ==
    LET OnlyRoot(maps) ==
            /\ Len(maps) = Len(trees)
            /\ \A i \in 1..Len(trees) :
                   Len(maps[i]) = 1 /\ maps[i][1][1] = Root(trees[i])
    IN  /\ (pc = "loop" /\ ~AnyReady(ready)) => OnlyRoot(tree_active_nodes)
        /\ (pc = "plan" /\ contractible = <<>>) => OnlyRoot(node2shape_batch)
        /\ (pc = "replay" /\ k > Len(batched_contractions))
               => OnlyRoot(node2array_batch)
        /\ pc = "done" => OnlyRoot(FinalMaps)

\* Done for a forest with a one-leaf tree and a tree of several steps
C4_Witness ==
    /\ pc = "done"
    /\ \E i, j \in 1..Len(trees) : trees[i].N = 1 /\ trees[j].N >= 3

\* C5: the same tree with the same leaf tensors submitted N times gives N
\* equal outputs, each equal to the output of the call on that tree alone
C5_CopiesAgree ==
    (Copies /\ SameArrays) =>
        /\ pc # "failed"
        /\ pc = "done" =>
              LET alone == Call(impl, <<trees[1]>>, <<arrays[1]>>)
              IN  /\ alone.error = ""
                  /\ Len(results) = Len(trees)
                  /\ \A i \in 1..Len(trees) :
                         results[i] = results[1] /\ results[i] = alone.results[1]

\* three or more copies of a tree with several steps, finished
C5_Witness ==
    /\ pc = "done"
    /\ Copies /\ SameArrays
    /\ Len(trees) >= 3
    /\ trees[1].N >= 3

\* C6: whichever pending group is selected at each step, the call does not
\* fail and returns what the call with the largest-group selection returns
C6_OrderIndependent ==
    /\ pc # "failed"
    /\ pc = "done" => results = Call(impl, trees, arrays).results

\* a finished call that at some step selected a group smaller than the
\* largest pending one, and took another number of steps
C6_Witness ==
    /\ pc = "done"
    /\ \E n \in 1..Len(history) : Len(history[n].insts) < history[n].largest
    /\ Len(history) # Call(impl, trees, arrays).steps

\* the shape of the value node holds in tree i while it is active
ActiveShape(i, node) ==
    IF impl = "contract" THEN DictGet(tree_active_nodes[i], node).shape
    ELSE DictGet(node2shape_batch[i], node)

\* C7: every pending instance is filed under exactly its own signature (the
\* equation string of its step, the shape of its left and of its right
\* operand), no two pending groups have the same signature, and every executed
\* group holds only instances whose signature is the group's
C7_GroupedBySignature ==
    /\ \A g \in 1..Len(Pending) : \A n \in 1..Len(Pending[g][2]) :
          LET inst == Pending[g][2][n]
          IN  Pending[g][1] = << get_einsum_eq(trees[inst[1]], inst[2]),
                                 ActiveShape(inst[1], inst[3]),
                                 ActiveShape(inst[1], inst[4]) >>
    /\ \A g, h \in 1..Len(Pending) : Pending[g][1] = Pending[h][1] => g = h
    /\ \A n \in 1..Len(history) : \A m \in 1..Len(history[n].insts) :
          LET inst == history[n].insts[m]
          IN  history[n].key = extract_signature(trees[inst[1]], inst[2])

\* two groups pending together whose operand shapes agree and whose equation
\* strings differ, one of them with instances of several trees
C7_Witness ==
    \E g, h \in 1..Len(Pending) :
        /\ Pending[g][1][1] # Pending[h][1][1]
        /\ Pending[g][1][2] = Pending[h][1][2]
        /\ Pending[g][1][3] = Pending[h][1][3]
        /\ Len(Pending[g][2]) >= 2

\* C8: the group a step pops is one of maximal size among the groups pending
\* at the selection, it is handed over with all of its instances, and its
\* signature is no longer in the table after the pop
C8_PopsLargest ==
    [][ /\ (pc = "loop" /\ history' # history) =>
              \E j \in 1..Len(ready) :
                  /\ \A m \in 1..Len(ready) : Len(ready[m][2]) <= Len(ready[j][2])
                  /\ to_contract' = ready[j][2]
                  /\ ~DictHas(ready', ready[j][1])
                  /\ Len(ready') = Len(ready) - 1
        /\ (pc = "plan" /\ history' # history) =>
              \E j \in 1..Len(contractible) :
                  /\ \A m \in 1..Len(contractible) :
                         Len(contractible[m][2]) <= Len(contractible[j][2])
                  /\ targets' = contractible[j][2]
                  /\ ~DictHas(contractible', contractible[j][1])
                  /\ Len(contractible') = Len(contractible) - 1
      ]_vars

\* just after a pop that left another, smaller group pending, the popped
\* group not being the oldest one
C8_Witness ==
    /\ pc \in {"promote", "plan_promote"}
    /\ k = 1
    /\ Pending # <<>>
    /\ history[Len(history)].largest > Len(Pending[1][2])
    /\ Len(history[Len(history)].insts) = history[Len(history)].largest

\* C9: when the forest is N copies of one tree, every executed group holds a
\* node of one copy exactly if it holds that node of every copy, and the loop
\* is Done after as many batched steps as for one copy alone
C9_Lockstep ==
    Copies =>
        /\ \A n \in 1..Len(history) : \A m \in 1..Len(history[n].insts) :
              \A j \in 1..Len(trees) :
                  LET inst == history[n].insts[m]
                  IN  <<j, inst[2], inst[3], inst[4]>> \in SeqRange(history[n].insts)
        /\ SchedulerDone =>
              Len(history) = Call(impl, <<trees[1]>>, <<arrays[1]>>).steps

\* three or more copies with different leaf tensors, Done after several steps
C9_Witness ==
    /\ pc = "done"
    /\ Copies /\ ~SameArrays
    /\ Len(trees) >= 3
    /\ Len(history) >= 2

\* C10: a call whose loop ends with a tree that is not reduced to one node
\* fails; it does not return
C10_IncompleteIsFatal ==
    pc = "done" => \A i \in 1..Len(FinalMaps) : Len(FinalMaps[i]) = 1

\* the keys of a dict
Keys(d) == {d[n][1] : n \in 1..Len(d)}

\* the active-node maps the scheduler works on
ActiveMaps == IF impl = "contract" THEN tree_active_nodes ELSE node2shape_batch

\* the pending instances, group by group
PendingInstances == UNION {SeqRange(Pending[g][2]) : g \in 1..Len(Pending)}

\* C11: every instance in the ready table has its left and its right operand
\* in the active-node map of its tree and its parent not in it; an operand
\* that is an internal node has been promoted before
C11_PendingOperandsActive ==
    \A inst \in PendingInstances :
        /\ inst[3] \in Keys(ActiveMaps[inst[1]])
        /\ inst[4] \in Keys(ActiveMaps[inst[1]])
        /\ inst[2] \notin Keys(ActiveMaps[inst[1]])
        /\ \A c \in {inst[3], inst[4]} :
               c \notin Leaves(trees[inst[1]])
                   => <<inst[1], c>> \in SeqRange(promoted)

\* a pending instance both of whose operands are internal nodes
C11_Witness ==
    \E inst \in PendingInstances :
        /\ inst[3] \notin Leaves(trees[inst[1]])
        /\ inst[4] \notin Leaves(trees[inst[1]])

\* the nodes of a tree: its leaves and the parents of its steps
NodesOf(tree) ==
    Leaves(tree) \cup {tree.contractions[n][1] : n \in 1..Len(tree.contractions)}

\* node of tree i is a leaf or has been promoted
Produced(i, node) ==
    node \in Leaves(trees[i]) \/ <<i, node>> \in SeqRange(promoted)

\* the parent of node in tree i has been promoted
Consumed(i, node) ==
    \E n \in 1..Len(trees[i].contractions) :
        /\ node \in {trees[i].contractions[n][2], trees[i].contractions[n][3]}
        /\ <<i, trees[i].contractions[n][1]>> \in SeqRange(promoted)

\* the number of promotions done in tree i
PromotionsIn(i) == Cardinality({n \in 1..Len(promoted) : promoted[n][1] = i})

\* C12: once the maps are seeded, a node is in the active-node map of its tree
\* exactly if it has been produced and not consumed; the active nodes of a
\* tree are pairwise disjoint, cover its leaves, and are leafCount minus the
\* promotions of that tree in number
C12_ActiveIffProducedNotConsumed ==
    pc # "start" =>
        /\ Len(ActiveMaps) = Len(trees)
        /\ \A i \in 1..Len(trees) :
              /\ Keys(ActiveMaps[i]) =
                     {x \in NodesOf(trees[i]) : Produced(i, x) /\ ~Consumed(i, x)}
              /\ \A x, y \in Keys(ActiveMaps[i]) : x # y => x \cap y = {}
              /\ UNION Keys(ActiveMaps[i]) = 0..(trees[i].N - 1)
              /\ Len(ActiveMaps[i]) = trees[i].N - PromotionsIn(i)
              /\ Cardinality(Keys(ActiveMaps[i])) = Len(ActiveMaps[i])

\* between two steps, a tree that holds a promoted node next to a leaf while
\* another tree is further or less far reduced
C12_Witness ==
    /\ pc \in {"loop", "plan"}
    /\ \E i, j \in 1..Len(trees) :
           /\ \E x, y \in Keys(ActiveMaps[i]) :
                  x \in Leaves(trees[i]) /\ y \notin Leaves(trees[i])
           /\ PromotionsIn(i) # PromotionsIn(j)

\* the maps are seeded and no group has been selected yet
Initialized == pc \in {"loop", "plan"} /\ history = <<>>

\* the steps of tree i whose two operands are leaves, as instances
LeafSteps(i) ==
    {<<i, trees[i].contractions[n][1], trees[i].contractions[n][2],
       trees[i].contractions[n][3]>> : n \in
         {n \in 1..Len(trees[i].contractions) :
             /\ trees[i].contractions[n][2] \in Leaves(trees[i])
             /\ trees[i].contractions[n][3] \in Leaves(trees[i])}}

\* C13: after initialization and before the first step every active-node map
\* holds exactly the leaves of its tree with their tensors, and the ready
\* table holds exactly the steps whose two operands are leaves, each once and
\* under its own signature
C13_InitialTable ==
    Initialized =>
        /\ \A i \in 1..Len(trees) :
              ActiveMaps[i] =
                  [n \in 1..trees[i].N |->
                      <<{n - 1}, IF impl = "contract" THEN arrays[i][n]
                                 ELSE arrays[i][n].shape>>]
        /\ PendingInstances = UNION {LeafSteps(i) : i \in 1..Len(trees)}
        /\ SumSeq([g \in 1..Len(Pending) |-> Len(Pending[g][2])])
               = Cardinality(PendingInstances)
        /\ \A g \in 1..Len(Pending) : \A n \in 1..Len(Pending[g][2]) :
               Pending[g][1] = extract_signature(trees[Pending[g][2][n][1]],
                                                 Pending[g][2][n][2])

\* an initialized call on a forest with a step on a promoted operand, which
\* is not registered, and two registered steps of one tree
C13_Witness ==
    /\ Initialized
    /\ \E i \in 1..Len(trees) :
           /\ Cardinality(LeafSteps(i)) >= 2
           /\ Len(trees[i].contractions) > Cardinality(LeafSteps(i))

\* a group is being promoted
Promoting == pc \in {"promote", "plan_promote"}

\* the list of instances being promoted
Executing == IF impl = "contract" THEN to_contract ELSE targets

\* the <<tree_idx, parent>> of the instances of groups 1..n, in order
RECURSIVE ExecutedUpTo(_)
ExecutedUpTo(n) ==
    IF n = 0 THEN <<>>
    ELSE ExecutedUpTo(n - 1)
           \o [m \in 1..Len(history[n].insts) |->
                  <<history[n].insts[m][1], history[n].insts[m][2]>>]

\* C14: the instances of a popped group are out of the ready table from the
\* pop on; the list being promoted stays the list that was popped, also when
\* a promotion registers an instance with the signature of that group, which
\* goes to a pending group of its own; the promotions done are those of the
\* popped groups, in order
C14_GroupLeavesTableAtOnce ==
    /\ \A n \in 1..Len(history) :
           SeqRange(history[n].insts) \cap PendingInstances = {}
    /\ Promoting =>
           /\ Executing = history[Len(history)].insts
           /\ k \in 1..Len(Executing)
           /\ Len(promoted) = Len(ExecutedUpTo(Len(history) - 1)) + k - 1
    /\ promoted = SubSeq(ExecutedUpTo(Len(history)), 1, Len(promoted))
    /\ (pc \in {"loop", "plan"}) => promoted = ExecutedUpTo(Len(history))

\* promotions of a group are still running and an instance with the
\* signature of that group is pending
C14_Witness ==
    /\ Promoting
    /\ k >= 2
    /\ \E g \in 1..Len(Pending) :
           Pending[g][1] = history[Len(history)].key /\ Pending[g][2] # <<>>

\* the group whose operands are stacked next, with its signature: the group
\* being promoted, or the planned group the replay executes next
StackedGroup ==
    IF pc = "promote"
    THEN [key |-> history[Len(history)].key,
          insts |-> SubSeq(to_contract, k, Len(to_contract)),
          maps |-> tree_active_nodes]
    ELSE IF pc = "replay" /\ k <= Len(batched_contractions)
    THEN [key |-> history[k].key,
          insts |-> batched_contractions[k][2],
          maps |-> node2array_batch]
    ELSE [key |-> <<>>, insts |-> <<>>, maps |-> <<>>]

\* C15: every tensor held for a node has the shape computed for that node from
\* the index sizes of the tree, the planner's shape of a node is that shape
\* too, the operands of a group about to be stacked have the left and the
\* right shape of its signature, and no stack or einsum fails on shapes
C15_ShapesAgree ==
    /\ error # "ValueError"
    /\ \A i \in 1..Len(tree_active_nodes) : \A n \in 1..Len(tree_active_nodes[i]) :
           tree_active_nodes[i][n][2].shape
               = get_node_shape(trees[i], tree_active_nodes[i][n][1])
    /\ \A i \in 1..Len(node2array_batch) : \A n \in 1..Len(node2array_batch[i]) :
           node2array_batch[i][n][2].shape
               = get_node_shape(trees[i], node2array_batch[i][n][1])
    /\ \A i \in 1..Len(node2shape_batch) : \A n \in 1..Len(node2shape_batch[i]) :
           node2shape_batch[i][n][2]
               = get_node_shape(trees[i], node2shape_batch[i][n][1])
    /\ \A m \in 1..Len(StackedGroup.insts) :
           LET inst == StackedGroup.insts[m]
           IN  /\ DictGet(StackedGroup.maps[inst[1]], inst[3]).shape
                      = StackedGroup.key[2]
               /\ DictGet(StackedGroup.maps[inst[1]], inst[4]).shape
                      = StackedGroup.key[3]
    /\ pc = "promote" =>
           \A m \in 1..Len(to_contract) :
               result_stack.shape = <<Len(to_contract)>>
                   \o get_node_shape(trees[to_contract[m][1]], to_contract[m][2])

\* a group of several instances about to be stacked whose left, right and
\* result shapes are three different shapes
C15_Witness ==
    /\ Len(StackedGroup.insts) >= 2
    /\ StackedGroup.key[2] # StackedGroup.key[3]
    /\ LET inst == StackedGroup.insts[1]
       IN  get_node_shape(trees[inst[1]], inst[2])
               \notin {StackedGroup.key[2], StackedGroup.key[3]}

\* the symbols a batch axis can be written with: one character that is no
\* separator, or the ellipsis
BatchSymbols ==
    {<<Alphabet[n]>> : n \in {n \in 1..Len(Alphabet) :
                                Alphabet[n] \notin {",", "-", ">", "."}}}
        \cup {<<".", ".", ".">>}

PositionIn(table, s) == CHOOSE j \in 1..Len(table) : table[j][1] = s

\* the selections of groups 1..n at which signature s was in the table
SeenAt(s, n) == {m \in 1..n : s \in Keys(history[m].table)}

\* signature s was first seen in the run before signature t, both in the
\* table at selection n
FirstSeenBefore(s, t, n) ==
    LET first(x) == CHOOSE m \in SeenAt(x, n) : \A o \in SeenAt(x, n) : m <= o
        order(fs, ft) ==
            \/ fs < ft
            \/ /\ fs = ft
               /\ PositionIn(history[fs].table, s) < PositionIn(history[fs].table, t)
    IN  order(first(s), first(t))

\* the groups of maximal size in the table at selection n
MaximalAt(n) ==
    {s \in Keys(history[n].table) :
        Len(DictGet(history[n].table, s)) = history[n].largest}

\* C17 as stated: among the groups of maximal size the one selected is the
\* one whose signature was first seen earliest in the run
C17_FirstSeenFirst ==
    \A n \in 1..Len(history) :
        /\ history[n].key \in MaximalAt(n)
        /\ \A t \in MaximalAt(n) \ {history[n].key} :
               FirstSeenBefore(history[n].key, t, n)

\* C17, amended: among the groups of maximal size the one selected is the
\* first in the order of the table, which is the order of the registrations
\* now in it: the groups left by the previous selection in their order, then
\* the signatures registered since, a signature that was popped and is
\* registered again among them
C17_OldestEntryFirst ==
    \A n \in 1..Len(history) :
        LET table == history[n].table
            j == PositionIn(table, history[n].key)
        IN  /\ history[n].key \in MaximalAt(n)
            /\ \A m \in 1..(j - 1) : Len(table[m][2]) < Len(table[j][2])
            /\ n > 1 =>
                   LET before == history[n - 1].table
                       left == SelectSeq(before,
                                   LAMBDA e : e[1] # history[n - 1].key)
                   IN  /\ Len(left) <= Len(table)
                       /\ \A m \in 1..Len(left) : table[m][1] = left[m][1]

\* a selection among several groups of maximal size, one of them with a
\* signature that was popped before and registered again
C17_Witness ==
    \E n \in 1..Len(history) :
        /\ Cardinality(MaximalAt(n)) >= 2
        /\ \E m \in 1..(n - 1) : history[m].key \in MaximalAt(n)

\* the maps that hold tensors: tree_active_nodes, or node2array_batch
TensorMaps == IF impl = "contract" THEN tree_active_nodes ELSE node2array_batch

\* what one promotion of instance inst does to the maps: only the map of its
\* tree changes, by losing the two operands and gaining the parent
PromotionFrame(before, after, inst) ==
    /\ Len(after) = Len(before)
    /\ \A j \in 1..Len(before) : j # inst[1] => after[j] = before[j]
    /\ Keys(after[inst[1]])
           = (Keys(before[inst[1]]) \ {inst[3], inst[4]}) \cup {inst[2]}
    /\ \A x \in Keys(after[inst[1]]) \ {inst[2]} :
           DictGet(after[inst[1]], x) = DictGet(before[inst[1]], x)

\* C18: a promotion of an instance of tree i changes the active-node map of
\* tree i alone, which loses the two operands and gains the parent, and
\* besides it only the ready table; a replayed group leaves the map of every
\* tree without an instance in it unchanged; and every entry of the map of
\* tree i is a node of tree i with the value of that node in tree i
C18_OnlyOwnMapChanges ==
    /\ [](/\ \A i \in 1..Len(ActiveMaps) :
                  Keys(ActiveMaps[i]) \subseteq NodesOf(trees[i])
          /\ \A i \in 1..Len(TensorMaps) : \A n \in 1..Len(TensorMaps[i]) :
                  /\ TensorMaps[i][n][1] \in NodesOf(trees[i])
                  /\ TensorMaps[i][n][2]
                         = Direct(trees[i], arrays[i], TensorMaps[i][n][1]))
    /\ [][ /\ pc = "promote" =>
                 /\ PromotionFrame(tree_active_nodes, tree_active_nodes',
                                   to_contract[k])
                 /\ UNCHANGED << trees, arrays, results, to_contract,
                                 result_stack, history >>
           /\ pc = "plan_promote" =>
                 /\ PromotionFrame(node2shape_batch, node2shape_batch',
                                   targets[k])
                 /\ UNCHANGED << trees, arrays, results, targets,
                                 batched_contractions, node2array_batch,
                                 history >>
           /\ (pc = "replay" /\ k <= Len(batched_contractions)) =>
                 \A j \in 1..Len(node2array_batch) :
                     j \notin {batched_contractions[k][2][m][1] :
                                  m \in 1..Len(batched_contractions[k][2])}
                         => node2array_batch'[j] = node2array_batch[j]
         ]_vars

\* after a promotion in one tree, another tree with steps to do still holds
\* exactly its leaves, and a third node of the first tree kept its entry
C18_Witness ==
    /\ Len(promoted) >= 1
    /\ Len(TensorMaps) = Len(trees)
    /\ \E i, j \in 1..Len(trees) :
           /\ Len(TensorMaps[i]) < trees[i].N /\ Len(TensorMaps[i]) >= 2
           /\ trees[j].N >= 2
           /\ Len(TensorMaps[j]) = trees[j].N

\* the steps of tree i that can run: the parent is not promoted yet and both
\* operands are in the active-node map
ReadySteps(i) ==
    {n \in 1..Len(trees[i].contractions) :
        /\ ~Produced(i, trees[i].contractions[n][1])
        /\ trees[i].contractions[n][2] \in Keys(ActiveMaps[i])
        /\ trees[i].contractions[n][3] \in Keys(ActiveMaps[i])}

\* the places where an instance is registered: the entries of the ready
\* table and, while a popped group is being promoted, the part of that group
\* still to be promoted
Registrations(inst) ==
    UNION {{<<g, m>> : m \in {x \in 1..Len(Pending[g][2]) : Pending[g][2][x] = inst}} :
              g \in 1..Len(Pending)}
      \cup (IF Promoting
            THEN {<<0, m>> : m \in {x \in k..Len(Executing) : Executing[x] = inst}}
            ELSE {})

\* C19: every step that can run is registered exactly once, nothing is
\* registered twice, and when the loop tests the ready table, the table has a
\* non-empty group as long as some tree holds more than one active node
C19_ReadyCompleteOnce ==
    pc # "start" =>
        /\ \A i \in 1..Len(trees) : \A n \in ReadySteps(i) :
               Cardinality(Registrations(
                   <<i, trees[i].contractions[n][1], trees[i].contractions[n][2],
                     trees[i].contractions[n][3]>>)) = 1
        /\ \A inst \in PendingInstances : Cardinality(Registrations(inst)) = 1
        /\ (pc \in {"loop", "plan"}
               /\ \E i \in 1..Len(ActiveMaps) : Len(ActiveMaps[i]) > 1)
              => \E g \in 1..Len(Pending) : Pending[g][2] # <<>>

\* between two steps, a pending instance whose two operands were promoted
\* in one and the same group
C19_Witness ==
    /\ pc \in {"loop", "plan"}
    /\ \E inst \in PendingInstances : \E n \in 1..Len(history) :
           /\ inst[3] # inst[4]
           /\ \E a, b \in 1..Len(history[n].insts) :
                  /\ history[n].insts[a][1] = inst[1]
                  /\ history[n].insts[b][1] = inst[1]
                  /\ history[n].insts[a][2] = inst[3]
                  /\ history[n].insts[b][2] = inst[4]

\* the operands of the instances of a group, as <<tree_idx, node>>
OperandsOf(group) ==
    UNION {{<<group[m][1], group[m][3]>>, <<group[m][1], group[m][4]>>} :
              m \in 1..Len(group)}

\* C20: while batch.py replays the plan, group k of the plan is the k-th group
\* the planner popped; before group k is replayed every tree's node-to-array
\* map has the keys, and each array the shape, that the planner's
\* node-to-shape map had when it popped that group; so every operand of the
\* group is a key of its tree's map, no operand occurs twice in the group,
\* and the replay raises no KeyError
C20_PlanIsValidSchedule ==
    /\ error # "KeyError"
    /\ (impl = "plan" /\ pc = "replay") =>
          /\ Len(batched_contractions) = Len(history)
          /\ k <= Len(batched_contractions) =>
                LET group == batched_contractions[k][2]
                IN  /\ group = history[k].insts
                    /\ Len(node2array_batch) = Len(history[k].maps)
                    /\ \A i \in 1..Len(node2array_batch) :
                           /\ Keys(node2array_batch[i]) = Keys(history[k].maps[i])
                           /\ \A x \in Keys(node2array_batch[i]) :
                                  DictGet(node2array_batch[i], x).shape
                                      = DictGet(history[k].maps[i], x)
                    /\ \A op \in OperandsOf(group) :
                           op[2] \in Keys(node2array_batch[op[1]])
                    /\ Cardinality(OperandsOf(group)) = 2 * Len(group)
          /\ k > Len(batched_contractions) =>
                \A i \in 1..Len(node2array_batch) :
                    Keys(node2array_batch[i]) = Keys(node2shape_batch[i])

\* the replay has run a group and stands before a group with an operand
\* that an earlier group produced
C20_Witness ==
    /\ impl = "plan" /\ pc = "replay"
    /\ k >= 2 /\ k <= Len(batched_contractions)
    /\ \E op \in OperandsOf(batched_contractions[k][2]) :
           op[2] \notin Leaves(trees[op[1]])

====
